---- MODULE Spec2Model ----
(***************************************************************************)
(* Model of woogeen_base::MediaFileOut (MediaFileOut.cpp): the recording   *)
(* session fed by producer threads through onFrame, flushed by the         *)
(* JobTimer thread through onTimeout, and torn down by close.              *)
(*                                                                         *)
(* Threads: one video producer and one audio producer call onFrame, the    *)
(* timer thread calls onTimeout, the owner calls close (explicitly and     *)
(* from the destructor).  m_status, the stream pointers and the queues are *)
(* shared and, but for the queues, read and written without a lock (the    *)
(* mutex of addVideoStream/addAudioStream is taken nowhere else).  Each    *)
(* handler is therefore split at its accesses to shared data: an action    *)
(* ends with at most one write that another thread can observe.            *)
(*                                                                         *)
(* The module also models mcu::FakedVideoFrameDecoder                      *)
(* (FakedVideoFrameDecoder.h), the adapter that binds a compositor slot    *)
(* for its lifetime.  The two objects share nothing.                       *)
(*                                                                         *)
(* Specifications: Spec is the recording session; SpecTickStart is the     *)
(* same with the tick-start record kept; SpecLive is Spec with the timer   *)
(* thread scheduled fairly; SpecDecoder is the decoder alone.              *)
(***************************************************************************)
EXTENDS Integers, Sequences, FiniteSets, TLC

\* ---------------------------------------------------------------- bounds
MaxFrames == 2          \* frames each producer hands to onFrame
MaxErrorReports == 1    \* ticks that report "context initialization failed"
MaxDecoderCalls == 3    \* calls made on one FakedVideoFrameDecoder while it lives

\* ------------------------------------------------------------- constants
Context_EMPTY == "Context_EMPTY"
Context_READY == "Context_READY"
Context_ERROR == "Context_ERROR"

NullPtr == [null |-> TRUE]

VideoProducer == "videoProducer"
AudioProducer == "audioProducer"
Producers == {VideoProducer, AudioProducer}

VideoFormats == {"FRAME_FORMAT_VP8", "FRAME_FORMAT_H264"}
AudioFormats == {"FRAME_FORMAT_PCMU", "FRAME_FORMAT_OPUS"}
OtherFormats == {"FRAME_FORMAT_I420"}

FrameLengths == {14}
RtpHeaderLengths == {12, 16}
Widths == {0, 640}
Heights == {480}
Channels == {2}
SampleRates == {48000}

\* Frames a producer can hand to onFrame; id is the arrival number.
VideoFrames(id) ==
    [format : VideoFormats \cup OtherFormats, id : {id}, length : FrameLengths,
     width : Widths, height : Heights, channels : {0}, sampleRate : {0},
     isRtpPacket : {FALSE}, headerLength : {0}]

AudioFrames(id, rtp) ==
    [format : AudioFormats \cup OtherFormats, id : {id}, length : FrameLengths,
     width : {0}, height : {0}, channels : Channels, sampleRate : SampleRates,
     isRtpPacket : {rtp}, headerLength : IF rtp THEN RtpHeaderLengths ELSE {0}]

NoFrame ==
    [format |-> "FRAME_FORMAT_UNKNOWN", id |-> 0, length |-> 0, width |-> 0,
     height |-> 0, channels |-> 0, sampleRate |-> 0, isRtpPacket |-> FALSE,
     headerLength |-> 0]

\* FakedVideoFrameDecoder: compositor slots, and the frames and formats its
\* callers pass.
Slots == 0..3
DecodedFrames == {"i420_a", "i420_b"}
DecoderFormats == {"FRAME_FORMAT_I420", "FRAME_FORMAT_VP8"}

\* ------------------------------------------------------------- variables
VARIABLES
    m_status,           \* AVStreamOut::m_status
    m_videoStream,      \* AVStream* : NullPtr or the stream descriptor
    m_audioStream,
    m_context,          \* AVFormatContext* : NullPtr or [streams, pb]
    m_avTrailerNeeded,
    m_videoQueue,       \* MediaFrameQueue contents, head first
    m_audioQueue,
    noFile,             \* m_context->oformat->flags & AVFMT_NOFILE
    timerRunning,       \* m_jobTimer still fires
    pcP,                \* position of each producer inside onFrame
    frame,              \* the frame each producer is handling
    sent,               \* frames each producer has handed over
    pcT,                \* position of the timer thread inside onTimeout
    pcC,                \* position of the owner inside close
    closeCalls,         \* completed calls of close
    owner,              \* "alive", "destructor" (inside ~MediaFileOut), "destroyed"
    audioIsRtp,         \* the audio leg delivers RTP packets
    streamsFreed,       \* avformat_free_context has released the streams
    aborted,            \* an assertion has ended the process
    io,                 \* operations performed on the container so far
    writtenVideo,       \* packets submitted with stream_index 0, in order
    writtenAudio,       \* packets submitted with stream_index 1, in order
    pushedVideo,        \* frames pushFrame put on the video queue, in order
    pushedAudio,
    notified,           \* notifyAsyncEvent calls, per message
    videoMismatch,      \* line 130 has run
    dropped,            \* frames each producer had discarded at line 114
    fakedDecoder,       \* the FakedVideoFrameDecoder: its lifetime and m_slot
    m_compositor,       \* calls the VideoFrameCompositor has received, in order
    tickStart,          \* frames pushed so far when the running tick began
    decoderCalls        \* calls made on the decoder after construction, in order

vars == <<m_status, m_videoStream, m_audioStream, m_context, m_avTrailerNeeded,
          m_videoQueue, m_audioQueue, noFile, timerRunning, pcP, frame, sent,
          pcT, pcC, closeCalls, owner, audioIsRtp, streamsFreed, aborted, io,
          writtenVideo,
          writtenAudio, pushedVideo, pushedAudio, notified, videoMismatch,
          dropped, tickStart, fakedDecoder, m_compositor, decoderCalls>>

envVars == <<noFile, audioIsRtp>>
decoderVars == <<fakedDecoder, m_compositor, decoderCalls>>
fileOutVars == <<m_status, m_videoStream, m_audioStream, m_context,
                 m_avTrailerNeeded, m_videoQueue, m_audioQueue, noFile,
                 timerRunning, pcP, frame, sent, pcT, pcC, closeCalls, owner,
                 audioIsRtp, streamsFreed, aborted, io, writtenVideo,
                 writtenAudio, pushedVideo, pushedAudio, notified,
                 videoMismatch, dropped, tickStart>>
ownerVars == <<pcC, closeCalls, owner>>
sessionVars == <<m_status, m_videoStream, m_audioStream, m_context,
                 m_avTrailerNeeded, m_videoQueue, m_audioQueue>>
producerVars == <<pcP, frame, sent>>
ghostQueueVars == <<pushedVideo, pushedAudio>>
historyVars == <<pushedVideo, pushedAudio, dropped>>
writtenVars == <<writtenVideo, writtenAudio>>

\* ------------------------------------------------------ pure conversions
frameFormat2VideoCodecID(frameFormat) ==
    CASE frameFormat = "FRAME_FORMAT_VP8" -> "AV_CODEC_ID_VP8"
      [] frameFormat = "FRAME_FORMAT_H264" -> "AV_CODEC_ID_H264"
      [] OTHER -> "AV_CODEC_ID_VP8"

frameFormat2AudioCodecID(frameFormat) ==
    CASE frameFormat = "FRAME_FORMAT_PCMU" -> "AV_CODEC_ID_PCM_MULAW"
      [] frameFormat = "FRAME_FORMAT_OPUS" -> "AV_CODEC_ID_OPUS"
      [] OTHER -> "AV_CODEC_ID_PCM_MULAW"

\* The descriptor addVideoStream fills in.
NewVideoStream(codec_id, width, height) ==
    [null |-> FALSE, codec_id |-> codec_id, codec_type |-> "AVMEDIA_TYPE_VIDEO",
     width |-> width, height |-> height, pix_fmt |-> "AV_PIX_FMT_YUV420P"]

\* The descriptor addAudioStream fills in.
NewAudioStream(codec_id, nbChannels, sampleRate) ==
    [null |-> FALSE, codec_id |-> codec_id, codec_type |-> "AVMEDIA_TYPE_AUDIO",
     channels |-> nbChannels, sample_rate |-> sampleRate,
     sample_fmt |-> IF codec_id = "AV_CODEC_ID_OPUS"
                    THEN "AV_SAMPLE_FMT_FLT" ELSE "AV_SAMPLE_FMT_S16"]

\* The EncodedFrame pushFrame stores: where the payload starts in the
\* caller's buffer, its size, and the frame it came from.
EncodedFrame(f, offset, length) ==
    [id |-> f.id, format |-> f.format, offset |-> offset, length |-> length]

\* What lines 134 and 151-161 still read of the frame once the stream handling
\* is done: payload, length and the RTP flag; geometry and audio parameters
\* are dead from there on.
PayloadOf(f) ==
    [f EXCEPT !.width = 0, !.height = 0, !.channels = 0, !.sampleRate = 0]

\* MediaFrameQueue::pushFrame / popFrame: a thread-safe FIFO.
pushFrame(queue, encoded) == Append(queue, encoded)
popFrame(queue) == Tail(queue)
frontFrame(queue) == Head(queue)

\* --------------------------------------------------------------- initial
\* The state the constructor leaves: no streams, an allocated context, empty
\* queues, the timer started, the status Context_EMPTY of a new AVStreamOut.
\* The container format either needs a file (noFile = FALSE) or not, and the
\* audio leg delivers either RTP packets or bare payloads.
Init ==
    /\ m_status = Context_EMPTY
    /\ m_videoStream = NullPtr
    /\ m_audioStream = NullPtr
    /\ m_context = [null |-> FALSE, streams |-> <<>>, pb |-> "unopened"]
    /\ m_avTrailerNeeded = FALSE
    /\ m_videoQueue = <<>>
    /\ m_audioQueue = <<>>
    /\ noFile \in BOOLEAN
    /\ timerRunning = TRUE
    /\ pcP = [p \in Producers |-> "idle"]
    /\ frame = [p \in Producers |-> NoFrame]
    /\ sent = [p \in Producers |-> 0]
    /\ pcT = "idle"
    /\ pcC = "idle"
    /\ closeCalls = 0
    /\ owner = "alive"
    /\ audioIsRtp \in BOOLEAN
    /\ streamsFreed = FALSE
    /\ aborted = FALSE
    /\ io = [sinkOpens |-> 0, headerAttempts |-> 0, headerWrites |-> 0,
             trailerWrites |-> 0, videoCodecCloses |-> 0,
             audioCodecCloses |-> 0, sinkCloses |-> 0, contextFrees |-> 0]
    /\ writtenVideo = <<>>
    /\ writtenAudio = <<>>
    /\ pushedVideo = <<>>
    /\ pushedAudio = <<>>
    /\ notified = [openFailed |-> 0, headerFailed |-> 0, contextError |-> 0]
    /\ videoMismatch = FALSE
    /\ dropped = [p \in Producers |-> 0]
    /\ tickStart = [audio |-> 0, video |-> 0]
    /\ fakedDecoder = [life |-> "unborn"]
    /\ m_compositor = <<>>
    /\ decoderCalls = <<>>

IsNull(ptr) == ptr.null

\* The frames producer p can hand over as its id-th frame.
FramesOf(p, id) ==
    IF p = VideoProducer THEN VideoFrames(id) ELSE AudioFrames(id, audioIsRtp)

\* ------------------------------------------------------------- onFrame
StatusIsReady == m_status = Context_READY

\* Line 113: a frame handed over while the status is Context_ERROR is dropped.
StatusIsError == m_status = Context_ERROR

\* onFrame entry: the producer hands over its next frame and reads m_status.
OnFrameEnter(p) ==
    /\ ~aborted
    /\ owner = "alive" /\ pcC = "idle" /\ closeCalls = 0
    /\ pcP[p] = "idle"
    /\ sent[p] < MaxFrames
    /\ \E f \in FramesOf(p, sent[p] + 1) :
         IF StatusIsError
         THEN /\ pcP' = pcP
              /\ frame' = frame
              /\ dropped' = [dropped EXCEPT ![p] = @ + 1]
         ELSE /\ pcP' = [pcP EXCEPT ![p] = "dispatch"]
              /\ frame' = [frame EXCEPT ![p] = f]
              /\ dropped' = dropped
    /\ sent' = [sent EXCEPT ![p] = @ + 1]
    /\ UNCHANGED <<sessionVars, envVars, decoderVars, tickStart, timerRunning, pcT, ownerVars,
                   streamsFreed, aborted, io, writtenVars, ghostQueueVars,
                   notified, videoMismatch>>

VideoCodecMismatchInverted(f) ==
    m_videoStream.codec_id = frameFormat2VideoCodecID(f.format)

\* Line 128: the frame's codec differs from the codec of the video stream.
VideoCodecMismatch(f) ==
    m_videoStream.codec_id # frameFormat2VideoCodecID(f.format)

\* Line 145: an audio stream exists and the frame's codec differs from it.
AudioCodecMismatch(f) ==
    /\ ~IsNull(m_audioStream)
    /\ m_audioStream.codec_id # frameFormat2AudioCodecID(f.format)

NeedAudioStreamNoVideoCheck == IsNull(m_audioStream)

NeedAudioStreamEveryFrame == ~IsNull(m_videoStream)

\* Line 139: the audio stream is created only after the video stream.
NeedAudioStream == ~IsNull(m_videoStream) /\ IsNull(m_audioStream)

\* Lines 198-220.  avformat_new_stream either returns a stream, which is
\* filled in and stored, or NULL, which sets the status to Context_ERROR.
addVideoStream(codec_id, width, height) ==
    \/ /\ m_context' = [m_context EXCEPT !.streams = Append(@, "video")]
       /\ m_videoStream' = NewVideoStream(codec_id, width, height)
       /\ m_status' = m_status
    \/ /\ m_status' = Context_ERROR
       /\ UNCHANGED <<m_context, m_videoStream>>

\* Lines 171-195.
addAudioStream(codec_id, nbChannels, sampleRate) ==
    \/ /\ m_context' = [m_context EXCEPT !.streams = Append(@, "audio")]
       /\ m_audioStream' = NewAudioStream(codec_id, nbChannels, sampleRate)
       /\ m_status' = m_status
    \/ /\ m_status' = Context_ERROR
       /\ UNCHANGED <<m_context, m_audioStream>>

\* Lines 117-135 up to the pushFrame call.
OnFrameVideo(p, f) ==
    IF IsNull(m_videoStream)
    THEN IF f.width > 0 /\ f.height > 0
         THEN /\ addVideoStream(frameFormat2VideoCodecID(f.format), f.width, f.height)
              /\ pcP' = [pcP EXCEPT ![p] = "push"]
              /\ frame' = [frame EXCEPT ![p] = PayloadOf(f)]
              /\ UNCHANGED <<m_audioStream, videoMismatch>>
         ELSE /\ pcP' = [pcP EXCEPT ![p] = "idle"]
              /\ frame' = [frame EXCEPT ![p] = NoFrame]
              /\ UNCHANGED <<m_status, m_videoStream, m_audioStream, m_context,
                             videoMismatch>>
    ELSE IF VideoCodecMismatch(f)
         THEN /\ m_status' = Context_ERROR
              /\ videoMismatch' = TRUE
              /\ pcP' = [pcP EXCEPT ![p] = "idle"]
              /\ frame' = [frame EXCEPT ![p] = NoFrame]
              /\ UNCHANGED <<m_videoStream, m_audioStream, m_context>>
         ELSE /\ pcP' = [pcP EXCEPT ![p] = "push"]
              /\ frame' = [frame EXCEPT ![p] = PayloadOf(f)]
              /\ UNCHANGED <<m_status, m_videoStream, m_audioStream, m_context,
                             videoMismatch>>

\* Lines 137-149 up to the RTP handling.
OnFrameAudio(p, f) ==
    IF NeedAudioStream
    THEN /\ addAudioStream(frameFormat2AudioCodecID(f.format), f.channels, f.sampleRate)
         /\ pcP' = [pcP EXCEPT ![p] = "push"]
         /\ frame' = [frame EXCEPT ![p] = PayloadOf(f)]
         /\ UNCHANGED <<m_videoStream, videoMismatch>>
    ELSE IF AudioCodecMismatch(f)
         THEN /\ m_status' = Context_ERROR
              /\ pcP' = [pcP EXCEPT ![p] = "idle"]
              /\ frame' = [frame EXCEPT ![p] = NoFrame]
              /\ UNCHANGED <<m_videoStream, m_audioStream, m_context, videoMismatch>>
         ELSE /\ pcP' = [pcP EXCEPT ![p] = "push"]
              /\ frame' = [frame EXCEPT ![p] = PayloadOf(f)]
              /\ UNCHANGED <<m_status, m_videoStream, m_audioStream, m_context,
                             videoMismatch>>

\* Lines 164-167: any other format ends the session.
OnFrameOther(p, f) ==
    /\ m_status' = Context_ERROR
    /\ pcP' = [pcP EXCEPT ![p] = "idle"]
    /\ frame' = [frame EXCEPT ![p] = NoFrame]
    /\ UNCHANGED <<m_videoStream, m_audioStream, m_context, videoMismatch>>

\* The switch of line 116 and the stream handling of the chosen case.
OnFrameDispatch(p) ==
    /\ ~aborted
    /\ pcP[p] = "dispatch"
    /\ LET f == frame[p]
       IN  CASE f.format \in VideoFormats -> OnFrameVideo(p, f)
             [] f.format \in AudioFormats -> OnFrameAudio(p, f)
             [] OTHER -> OnFrameOther(p, f)
    /\ UNCHANGED <<m_avTrailerNeeded, m_videoQueue, m_audioQueue, envVars, decoderVars, tickStart,
                   timerRunning, sent, pcT, ownerVars, streamsFreed,
                   aborted, io, writtenVars, historyVars, notified>>

RtpOffsetZero(f) == 0

\* Lines 151-159: an RTP packet loses its header; assert(length >= headerLength).
RtpOffset(f) == IF f.isRtpPacket THEN f.headerLength ELSE 0
RtpAssertHolds(f) == f.isRtpPacket => f.length >= f.headerLength

\* Line 134: the video frame goes on the video queue.
OnFramePushVideo(p) ==
    /\ ~aborted
    /\ pcP[p] = "push"
    /\ frame[p].format \in VideoFormats
    /\ LET e == EncodedFrame(frame[p], 0, frame[p].length)
       IN  /\ m_videoQueue' = pushFrame(m_videoQueue, e)
           /\ pushedVideo' = Append(pushedVideo, e)
    /\ pcP' = [pcP EXCEPT ![p] = "idle"]
    /\ frame' = [frame EXCEPT ![p] = NoFrame]
    /\ UNCHANGED <<m_status, m_videoStream, m_audioStream, m_context,
                   m_avTrailerNeeded, m_audioQueue, envVars, decoderVars, tickStart, timerRunning, sent,
                   pcT, ownerVars, streamsFreed, aborted, io, writtenVars,
                   pushedAudio, notified, videoMismatch, dropped>>

\* Lines 151-162: the audio payload, stripped of its RTP header, goes on the
\* audio queue; a header longer than the payload fails the assertion.
OnFramePushAudio(p) ==
    /\ ~aborted
    /\ pcP[p] = "push"
    /\ frame[p].format \in AudioFormats
    /\ LET f == frame[p]
           e == EncodedFrame(f, RtpOffset(f), f.length - RtpOffset(f))
       IN  IF RtpAssertHolds(f)
           THEN /\ m_audioQueue' = pushFrame(m_audioQueue, e)
                /\ pushedAudio' = Append(pushedAudio, e)
                /\ aborted' = FALSE
           ELSE /\ aborted' = TRUE
                /\ UNCHANGED <<m_audioQueue, pushedAudio>>
    /\ pcP' = [pcP EXCEPT ![p] = "idle"]
    /\ frame' = [frame EXCEPT ![p] = NoFrame]
    /\ UNCHANGED <<m_status, m_videoStream, m_audioStream, m_context,
                   m_avTrailerNeeded, m_videoQueue, envVars, decoderVars, tickStart, timerRunning, sent,
                   pcT, ownerVars, streamsFreed, io, writtenVars,
                   pushedVideo, notified, videoMismatch, dropped>>

\* ----------------------------------------------------------- onTimeout
\* Observation of a tick: how many frames had been queued when it began; the
\* record is cleared when onTimeout returns.  It is kept under SpecTickStart.
TickStartUpdate ==
    tickStart' = IF pcT' = "idle" THEN [audio |-> 0, video |-> 0]
                 ELSE IF pcT = "idle"
                      THEN [audio |-> Len(pushedAudio), video |-> Len(pushedVideo)]
                      ELSE tickStart

TickBeginReportsReady ==
    /\ ~aborted
    /\ timerRunning
    /\ pcT = "idle"
    /\ CASE m_status = Context_EMPTY ->
              /\ pcT' = "empty"
              /\ notified' = notified
         [] m_status = Context_READY ->
              /\ pcT' = "drainAudio"
              /\ notified' = [notified EXCEPT !.contextError =
                                 IF @ < MaxErrorReports THEN @ + 1 ELSE @]
         [] OTHER ->
              /\ notified.contextError < MaxErrorReports
              /\ notified' = [notified EXCEPT !.contextError = @ + 1]
              /\ pcT' = "idle"
    /\ UNCHANGED <<sessionVars, envVars, decoderVars, timerRunning,
                   producerVars, ownerVars, streamsFreed, aborted, io,
                   writtenVars, historyVars, videoMismatch>>

\* Line 224: the switch reads m_status once.  The Context_ERROR case reports
\* and returns.
TickBegin ==
    /\ ~aborted
    /\ timerRunning
    /\ pcT = "idle"
    /\ CASE m_status = Context_EMPTY ->
              /\ pcT' = "empty"
              /\ notified' = notified
         [] m_status = Context_READY ->
              /\ pcT' = "drainAudio"
              /\ notified' = notified
         [] OTHER ->
              /\ notified.contextError < MaxErrorReports
              /\ notified' = [notified EXCEPT !.contextError = @ + 1]
              /\ pcT' = "idle"
    /\ UNCHANGED <<sessionVars, envVars, decoderVars, timerRunning, producerVars, ownerVars, streamsFreed, aborted, io, writtenVars,
                   historyVars, videoMismatch>>

OnlyVideoStreamExists == ~IsNull(m_videoStream)

\* Line 226.
StreamTestSkipped == TRUE

BothStreamsExist == ~IsNull(m_audioStream) /\ ~IsNull(m_videoStream)

\* Lines 226-227 and 245-246: wait until both streams exist.
TickEmpty ==
    /\ ~aborted
    /\ pcT = "empty"
    /\ pcT' = IF BothStreamsExist
              THEN (IF noFile THEN "header" ELSE "open")
              ELSE "idle"
    /\ UNCHANGED <<sessionVars, envVars, decoderVars, timerRunning, producerVars, ownerVars, streamsFreed, aborted, io, writtenVars,
                   historyVars, notified, videoMismatch>>

\* Lines 228-233: avio_open succeeds or fails.
TickOpen ==
    /\ ~aborted
    /\ pcT = "open"
    /\ io' = [io EXCEPT !.sinkOpens = @ + 1]
    /\ \/ /\ m_context' = [m_context EXCEPT !.pb = "open"]
          /\ pcT' = "header"
          /\ UNCHANGED <<m_status, notified>>
       \/ /\ m_status' = Context_ERROR
          /\ notified' = [notified EXCEPT !.openFailed = @ + 1]
          /\ pcT' = "idle"
          /\ m_context' = m_context
    /\ UNCHANGED <<m_videoStream, m_audioStream, m_avTrailerNeeded, m_videoQueue,
                   m_audioQueue, envVars, decoderVars, timerRunning, producerVars, ownerVars, streamsFreed, aborted, writtenVars,
                   historyVars, videoMismatch>>

TickHeaderFlagFirst ==
    /\ ~aborted
    /\ pcT = "header"
    /\ m_avTrailerNeeded' = TRUE
    /\ \/ /\ io' = [io EXCEPT !.headerAttempts = @ + 1, !.headerWrites = @ + 1]
          /\ pcT' = "ready"
          /\ UNCHANGED <<m_status, notified>>
       \/ /\ io' = [io EXCEPT !.headerAttempts = @ + 1]
          /\ m_status' = Context_ERROR
          /\ notified' = [notified EXCEPT !.headerFailed = @ + 1]
          /\ pcT' = "idle"
    /\ UNCHANGED <<m_videoStream, m_audioStream, m_context, m_videoQueue,
                   m_audioQueue, envVars, decoderVars, timerRunning, producerVars, ownerVars,
                   streamsFreed, aborted, writtenVars, historyVars,
                   videoMismatch>>

\* Lines 236-242: avformat_write_header succeeds, and the trailer becomes
\* needed, or fails.
TickHeader ==
    /\ ~aborted
    /\ pcT = "header"
    /\ \/ /\ io' = [io EXCEPT !.headerAttempts = @ + 1, !.headerWrites = @ + 1]
          /\ m_avTrailerNeeded' = TRUE
          /\ pcT' = "ready"
          /\ UNCHANGED <<m_status, notified>>
       \/ /\ io' = [io EXCEPT !.headerAttempts = @ + 1]
          /\ m_status' = Context_ERROR
          /\ notified' = [notified EXCEPT !.headerFailed = @ + 1]
          /\ pcT' = "idle"
          /\ m_avTrailerNeeded' = m_avTrailerNeeded
    /\ UNCHANGED <<m_videoStream, m_audioStream, m_context, m_videoQueue,
                   m_audioQueue, envVars, decoderVars, timerRunning, producerVars, ownerVars, streamsFreed, aborted, writtenVars,
                   historyVars, videoMismatch>>

\* Line 243: the status is stored without being read again.
TickReady ==
    /\ ~aborted
    /\ pcT = "ready"
    /\ m_status' = Context_READY
    /\ pcT' = "drainAudio"
    /\ UNCHANGED <<m_videoStream, m_audioStream, m_context, m_avTrailerNeeded,
                   m_videoQueue, m_audioQueue, envVars, decoderVars, timerRunning,
                   producerVars, ownerVars, streamsFreed, aborted, io,
                   writtenVars, historyVars, notified, videoMismatch>>

\* Lines 277-287: the packet is submitted with stream_index 1.
writeAudioFrame(encodedAudioFrame) == Append(writtenAudio, encodedAudioFrame)

writeVideoFrameTwice(encodedVideoFrame) ==
    writtenVideo \o <<encodedVideoFrame, encodedVideoFrame>>

\* Lines 265-275: the packet is submitted with stream_index 0.
writeVideoFrame(encodedVideoFrame) == Append(writtenVideo, encodedVideoFrame)

TickDrainVideoOneFrame ==
    /\ ~aborted
    /\ pcT = "drainVideo"
    /\ pcT' = "idle"
    /\ IF m_videoQueue # <<>>
       THEN /\ writtenVideo' = writeVideoFrame(frontFrame(m_videoQueue))
            /\ m_videoQueue' = popFrame(m_videoQueue)
       ELSE UNCHANGED <<m_videoQueue, writtenVideo>>
    /\ UNCHANGED <<m_status, m_videoStream, m_audioStream, m_context,
                   m_avTrailerNeeded, m_audioQueue, envVars, decoderVars,
                   timerRunning, producerVars, ownerVars, streamsFreed,
                   aborted, io, writtenAudio, historyVars, notified,
                   videoMismatch>>

TickDrainAudioDiscards ==
    /\ ~aborted
    /\ pcT = "drainAudio"
    /\ IF m_audioQueue # <<>>
       THEN /\ m_audioQueue' = popFrame(m_audioQueue)
            /\ pcT' = pcT
       ELSE /\ pcT' = "drainVideo"
            /\ UNCHANGED m_audioQueue
    /\ UNCHANGED <<m_status, m_videoStream, m_audioStream, m_context,
                   m_avTrailerNeeded, m_videoQueue, envVars, decoderVars,
                   timerRunning, producerVars, ownerVars, streamsFreed,
                   aborted, io, writtenVars, historyVars, notified,
                   videoMismatch>>

\* Lines 258-259: one turn of the audio loop.
TickDrainAudio ==
    /\ ~aborted
    /\ pcT = "drainAudio"
    /\ IF m_audioQueue # <<>>
       THEN /\ writtenAudio' = writeAudioFrame(frontFrame(m_audioQueue))
            /\ m_audioQueue' = popFrame(m_audioQueue)
            /\ pcT' = pcT
       ELSE /\ pcT' = "drainVideo"
            /\ UNCHANGED <<m_audioQueue, writtenAudio>>
    /\ UNCHANGED <<m_status, m_videoStream, m_audioStream, m_context,
                   m_avTrailerNeeded, m_videoQueue, envVars, decoderVars, timerRunning,
                   producerVars, ownerVars, streamsFreed, aborted, io,
                   writtenVideo, historyVars, notified, videoMismatch>>

\* Lines 261-262: one turn of the video loop.
TickDrainVideo ==
    /\ ~aborted
    /\ pcT = "drainVideo"
    /\ IF m_videoQueue # <<>>
       THEN /\ writtenVideo' = writeVideoFrame(frontFrame(m_videoQueue))
            /\ m_videoQueue' = popFrame(m_videoQueue)
            /\ pcT' = pcT
       ELSE /\ pcT' = "idle"
            /\ UNCHANGED <<m_videoQueue, writtenVideo>>
    /\ UNCHANGED <<m_status, m_videoStream, m_audioStream, m_context,
                   m_avTrailerNeeded, m_audioQueue, envVars, decoderVars, timerRunning,
                   producerVars, ownerVars, streamsFreed, aborted, io,
                   writtenAudio, historyVars, notified, videoMismatch>>

\* ---------------------------------------------------------------- close
\* JobTimer::stop returns once no tick is running.
TimerJoined == pcT = "idle"

CloseStopTimerLate(caller) ==
    /\ ~aborted
    /\ pcC = "idle"
    /\ owner = "alive"
    /\ caller = "close" => closeCalls = 0
    /\ \A p \in Producers : pcP[p] = "idle"
    /\ pcC' = "trailer"
    /\ owner' = IF caller = "destructor" THEN "destructor" ELSE owner
    /\ UNCHANGED <<sessionVars, envVars, decoderVars, tickStart, timerRunning,
                   producerVars, pcT, closeCalls, streamsFreed, aborted, io,
                   writtenVars, historyVars, notified, videoMismatch>>

\* Lines 83-90.  The owner calls close at most once itself, then destroys
\* the object, which calls close again; neither happens while a producer is
\* inside onFrame.  Line 90 stops the timer.
CloseStopTimer(caller) ==
    /\ ~aborted
    /\ pcC = "idle"
    /\ owner = "alive"
    /\ caller = "close" => closeCalls = 0
    /\ \A p \in Producers : pcP[p] = "idle"
    /\ TimerJoined
    /\ timerRunning' = FALSE
    /\ pcC' = "trailer"
    /\ owner' = IF caller = "destructor" THEN "destructor" ELSE owner
    /\ UNCHANGED <<sessionVars, envVars, decoderVars, tickStart, producerVars, pcT, closeCalls,
                   streamsFreed, aborted, io, writtenVars, historyVars,
                   notified, videoMismatch>>

TrailerConditionNoFlag == ~IsNull(m_context)

TrailerConditionCleanOnly ==
    ~IsNull(m_context) /\ m_avTrailerNeeded /\ m_status # Context_ERROR

\* Line 92.
TrailerCondition == ~IsNull(m_context) /\ m_avTrailerNeeded

\* Lines 92-93.
CloseTrailer ==
    /\ ~aborted
    /\ pcC = "trailer"
    /\ io' = IF TrailerCondition
             THEN [io EXCEPT !.trailerWrites = @ + 1]
             ELSE io
    /\ pcC' = "videoCodec"
    /\ UNCHANGED <<sessionVars, envVars, decoderVars, tickStart, timerRunning, producerVars, pcT,
                   closeCalls, owner, streamsFreed, aborted, writtenVars,
                   historyVars, notified, videoMismatch>>

\* stream->codec != NULL as lines 95 and 98 read it.  A live stream has the
\* codec context avformat_new_stream gave it.  After avformat_free_context
\* the pointer dangles and the read returns whatever the freed memory holds.
CodecNonNull(stream) == IF streamsFreed THEN BOOLEAN ELSE {TRUE}

\* Lines 95-96.
CloseVideoCodec ==
    /\ ~aborted
    /\ pcC = "videoCodec"
    /\ \E codecSet \in CodecNonNull(m_videoStream) :
         io' = IF ~IsNull(m_videoStream) /\ codecSet
               THEN [io EXCEPT !.videoCodecCloses = @ + 1]
               ELSE io
    /\ pcC' = "audioCodec"
    /\ UNCHANGED <<sessionVars, envVars, decoderVars, tickStart, timerRunning, producerVars, pcT,
                   closeCalls, owner, streamsFreed, aborted, writtenVars,
                   historyVars, notified, videoMismatch>>

\* Lines 98-99.
CloseAudioCodec ==
    /\ ~aborted
    /\ pcC = "audioCodec"
    /\ \E codecSet \in CodecNonNull(m_audioStream) :
         io' = IF ~IsNull(m_audioStream) /\ codecSet
               THEN [io EXCEPT !.audioCodecCloses = @ + 1]
               ELSE io
    /\ pcC' = "context"
    /\ UNCHANGED <<sessionVars, envVars, decoderVars, tickStart, timerRunning, producerVars, pcT,
                   closeCalls, owner, streamsFreed, aborted, writtenVars,
                   historyVars, notified, videoMismatch>>

\* Lines 101-108.
CloseContext ==
    /\ ~aborted
    /\ pcC = "context"
    /\ IF ~IsNull(m_context)
       THEN /\ io' = [io EXCEPT !.sinkCloses = IF noFile THEN @ ELSE @ + 1,
                                !.contextFrees = @ + 1]
            /\ m_context' = NullPtr
            /\ streamsFreed' = TRUE
       ELSE UNCHANGED <<io, m_context, streamsFreed>>
    /\ pcC' = "idle"
    /\ closeCalls' = closeCalls + 1
    /\ owner' = IF owner = "destructor" THEN "destroyed" ELSE owner
    /\ UNCHANGED <<m_status, m_videoStream, m_audioStream, m_avTrailerNeeded,
                   m_videoQueue, m_audioQueue, envVars, decoderVars, tickStart, timerRunning,
                   producerVars, pcT, aborted, writtenVars, historyVars,
                   notified, videoMismatch>>

\* -------------------------------------------------------- specification
Next ==
    \/ \E p \in Producers : OnFrameEnter(p)
    \/ \E p \in Producers : OnFrameDispatch(p)
    \/ \E p \in Producers : OnFramePushVideo(p)
    \/ \E p \in Producers : OnFramePushAudio(p)
    \/ TickBegin /\ UNCHANGED tickStart
    \/ TickEmpty /\ UNCHANGED tickStart
    \/ TickOpen /\ UNCHANGED tickStart
    \/ TickHeader /\ UNCHANGED tickStart
    \/ TickReady /\ UNCHANGED tickStart
    \/ TickDrainAudio /\ UNCHANGED tickStart
    \/ TickDrainVideo /\ UNCHANGED tickStart
    \/ CloseStopTimer("close")
    \/ CloseStopTimer("destructor")
    \/ CloseTrailer
    \/ CloseVideoCodec
    \/ CloseAudioCodec
    \/ CloseContext

Spec == Init /\ [][Next]_vars

\* The JobTimer thread: it keeps calling onTimeout until it is stopped, and
\* a call that has begun runs to its return.
TimerTick ==
    /\ \/ TickBegin
       \/ TickEmpty
       \/ TickOpen
       \/ TickHeader
       \/ TickReady
       \/ TickDrainAudio
       \/ TickDrainVideo
    /\ UNCHANGED tickStart

SpecLive == Init /\ [][Next]_vars /\ WF_vars(TimerTick)

\* The same program with the tick-start record kept.
NextTickStart ==
    \/ \E p \in Producers : OnFrameEnter(p)
    \/ \E p \in Producers : OnFrameDispatch(p)
    \/ \E p \in Producers : OnFramePushVideo(p)
    \/ \E p \in Producers : OnFramePushAudio(p)
    \/ TickBegin /\ TickStartUpdate
    \/ TickEmpty /\ TickStartUpdate
    \/ TickOpen /\ TickStartUpdate
    \/ TickHeader /\ TickStartUpdate
    \/ TickReady /\ TickStartUpdate
    \/ TickDrainAudio /\ TickStartUpdate
    \/ TickDrainVideo /\ TickStartUpdate
    \/ CloseStopTimer("close")
    \/ CloseStopTimer("destructor")
    \/ CloseTrailer
    \/ CloseVideoCodec
    \/ CloseAudioCodec
    \/ CloseContext

SpecTickStart == Init /\ [][NextTickStart]_vars

\* ------------------------------------------- FakedVideoFrameDecoder.h
\* Lines 44-49: the constructor stores the slot and activates it.
FakedVideoFrameDecoder(slot) ==
    /\ fakedDecoder.life = "unborn"
    /\ fakedDecoder' = [life |-> "alive", m_slot |-> slot]
    /\ m_compositor' = Append(m_compositor, [op |-> "activateInput", slot |-> slot])
    /\ UNCHANGED <<decoderCalls, fileOutVars>>

\* Lines 51-54: the destructor deactivates the slot.
DestroyFakedVideoFrameDecoder ==
    /\ fakedDecoder.life = "alive"
    /\ fakedDecoder' = [fakedDecoder EXCEPT !.life = "destroyed"]
    /\ m_compositor' = Append(m_compositor,
                              [op |-> "deActivateInput", slot |-> fakedDecoder.m_slot])
    /\ UNCHANGED <<decoderCalls, fileOutVars>>

\* Lines 56-61: onFrame asserts the format and pushes the frame to the slot.
DecoderOnFrame(format, payload) ==
    /\ fakedDecoder.life = "alive"
    /\ Len(decoderCalls) < MaxDecoderCalls
    /\ decoderCalls' = Append(decoderCalls, [op |-> "onFrame", format |-> format])
    /\ IF format = "FRAME_FORMAT_I420"
       THEN /\ m_compositor' = Append(m_compositor,
                    [op |-> "pushInput", slot |-> fakedDecoder.m_slot,
                     frame |-> payload])
            /\ UNCHANGED fakedDecoder
       ELSE /\ fakedDecoder' = [fakedDecoder EXCEPT !.life = "aborted"]
            /\ UNCHANGED m_compositor
    /\ UNCHANGED fileOutVars

setInputActivates(format) ==
    /\ fakedDecoder.life = "alive"
    /\ Len(decoderCalls) < MaxDecoderCalls
    /\ decoderCalls' = Append(decoderCalls, [op |-> "setInput", format |-> format])
    /\ IF format = "FRAME_FORMAT_I420"
       THEN /\ m_compositor' = Append(m_compositor,
                    [op |-> "activateInput", slot |-> fakedDecoder.m_slot])
            /\ UNCHANGED fakedDecoder
       ELSE /\ fakedDecoder' = [fakedDecoder EXCEPT !.life = "aborted"]
            /\ UNCHANGED m_compositor
    /\ UNCHANGED fileOutVars

\* Lines 63-67: setInput asserts the format and returns true.
setInput(format) ==
    /\ fakedDecoder.life = "alive"
    /\ Len(decoderCalls) < MaxDecoderCalls
    /\ decoderCalls' = Append(decoderCalls, [op |-> "setInput", format |-> format])
    /\ IF format = "FRAME_FORMAT_I420"
       THEN UNCHANGED fakedDecoder
       ELSE fakedDecoder' = [fakedDecoder EXCEPT !.life = "aborted"]
    /\ UNCHANGED <<m_compositor, fileOutVars>>

\* Lines 69-71: unsetInput does nothing.
unsetInput ==
    /\ fakedDecoder.life = "alive"
    /\ Len(decoderCalls) < MaxDecoderCalls
    /\ decoderCalls' = Append(decoderCalls, [op |-> "unsetInput", format |-> "none"])
    /\ UNCHANGED <<fakedDecoder, m_compositor, fileOutVars>>

NextDecoder ==
    \/ \E slot \in Slots : FakedVideoFrameDecoder(slot)
    \/ DestroyFakedVideoFrameDecoder
    \/ \E format \in DecoderFormats, payload \in DecodedFrames :
          DecoderOnFrame(format, payload)
    \/ \E format \in DecoderFormats : setInput(format)
    \/ unsetInput

\* The decoder alone; the recording session stays as constructed.
SpecDecoder == Init /\ [][NextDecoder]_vars

\* ----------------------------------------------------------------- claims
\* The step in which producer p runs the stream handling of its frame.
DispatchStep(p) == pcP[p] = "dispatch" /\ pcP'[p] # "dispatch"

\* C1: once the status is Context_ERROR it is Context_ERROR in every later
\* state, for every interleaving of onFrame calls and ticks.
C1_ErrorIsPermanent ==
    [][m_status = Context_ERROR => m_status' = Context_ERROR]_vars

\* C2: avformat_write_header is called at most once, and only when both the
\* video stream and the audio stream exist.
C2_HeaderOnce ==
    /\ io.headerAttempts <= 1
    /\ io.headerWrites <= io.headerAttempts
    /\ io.headerAttempts > 0 => ~IsNull(m_videoStream) /\ ~IsNull(m_audioStream)

\* A tick after the one that wrote the header is draining the queues.
C2_Witness ==
    /\ io.headerWrites = 1
    /\ m_status = Context_READY
    /\ pcT = "drainVideo"
    /\ Len(writtenAudio) = MaxFrames
    /\ Len(writtenVideo) >= 1

\* C3: a video (audio) frame whose codec differs from the codec of the
\* existing video (audio) stream sets the status to Context_ERROR, leaves the
\* stream descriptor as it is, and is not put on the queue: the call returns.
C3_CodecMismatch ==
    [][\A p \in Producers :
         /\ ( /\ DispatchStep(p)
              /\ frame[p].format \in VideoFormats
              /\ ~IsNull(m_videoStream)
              /\ frameFormat2VideoCodecID(frame[p].format) # m_videoStream.codec_id )
            => /\ m_status' = Context_ERROR
               /\ m_videoStream' = m_videoStream
               /\ m_videoQueue' = m_videoQueue
               /\ pushedVideo' = pushedVideo
               /\ pcP'[p] = "idle"
         /\ ( /\ DispatchStep(p)
              /\ frame[p].format \in AudioFormats
              /\ ~IsNull(m_audioStream)
              /\ frameFormat2AudioCodecID(frame[p].format) # m_audioStream.codec_id )
            => /\ m_status' = Context_ERROR
               /\ m_audioStream' = m_audioStream
               /\ m_audioQueue' = m_audioQueue
               /\ pushedAudio' = pushedAudio
               /\ pcP'[p] = "idle"
      ]_vars

\* A second video frame of the other codec has been refused.
C3_Witness ==
    /\ videoMismatch
    /\ m_status = Context_ERROR
    /\ ~IsNull(m_videoStream)
    /\ Len(pushedVideo) = 1
    /\ sent[VideoProducer] = 2
    /\ dropped[VideoProducer] = 0
    /\ pcP[VideoProducer] = "idle"

\* C4: the audio stream exists only if the video stream exists; an audio frame
\* handled while there is no video stream creates no audio stream and leaves
\* the status as it is.
C4_VideoFirst ==
    /\ [](~IsNull(m_audioStream) => ~IsNull(m_videoStream))
    /\ [][\A p \in Producers :
            ( /\ DispatchStep(p)
              /\ frame[p].format \in AudioFormats
              /\ IsNull(m_videoStream) )
            => /\ IsNull(m_audioStream')
               /\ m_status' = m_status
               /\ m_status # Context_READY
        ]_vars

\* An audio frame was accepted and queued before any video stream existed.
C4_Witness ==
    /\ IsNull(m_videoStream)
    /\ IsNull(m_audioStream)
    /\ m_status = Context_EMPTY
    /\ Len(pushedAudio) >= 1

\* C5: a second call of close performs no operation on the container: once
\* the first call has returned, no trailer write, codec close, sink close or
\* context release follows.
C5_CloseIdempotent ==
    [][closeCalls >= 1 => io' = io]_vars

\* C6 as stated: a session whose status is Context_ERROR never gets a trailer.
C6_NoTrailerInError ==
    m_status = Context_ERROR => io.trailerWrites = 0

\* C6 amended: when close runs on a session whose status is Context_ERROR, it
\* writes the trailer exactly if this is the first close and an earlier tick
\* had written the header; a session that entered Context_ERROR without a
\* header gets no trailer.
C6_TrailerInErrorIffHeader ==
    [][( /\ pcC = "trailer"
         /\ pcC' # "trailer"
         /\ m_status = Context_ERROR )
       => /\ (io'.trailerWrites = io.trailerWrites + 1)
               <=> (io.headerWrites >= 1 /\ closeCalls = 0)
          /\ io'.trailerWrites \in {io.trailerWrites, io.trailerWrites + 1}
      ]_vars

\* close has written the trailer of a session that failed after its header.
C6_Witness ==
    /\ m_status = Context_ERROR
    /\ io.headerWrites = 1
    /\ io.trailerWrites = 1
    /\ closeCalls >= 1

\* C7: only close writes the trailer, at most once, and only after a tick
\* wrote the header successfully.
C7_TrailerOnlyAfterHeader ==
    /\ [](io.trailerWrites <= 1)
    /\ [](io.trailerWrites >= 1 => io.headerWrites >= 1)
    /\ [][io'.trailerWrites # io.trailerWrites => pcC = "trailer"]_vars

\* Both calls of close have run on a session with a header: one trailer.
C7_Witness ==
    /\ io.headerWrites = 1
    /\ io.trailerWrites = 1
    /\ closeCalls = 2

\* C8: an onFrame call that finds the status Context_ERROR returns at once and
\* changes neither queue, neither stream, nor the status, nor the
\* trailer-needed flag.
C8_OnFrameNoOpInError ==
    [][\A p \in Producers :
         (sent'[p] # sent[p] /\ m_status = Context_ERROR)
         => /\ pcP'[p] = "idle"
            /\ UNCHANGED <<m_videoQueue, m_audioQueue, m_videoStream,
                           m_audioStream, m_status, m_avTrailerNeeded,
                           pushedVideo, pushedAudio>>
      ]_vars

\* Frames of both producers were discarded on entry.
C8_Witness ==
    /\ m_status = Context_ERROR
    /\ dropped[VideoProducer] >= 1
    /\ dropped[AudioProducer] >= 1

\* The ids of the frames in a sequence of EncodedFrames.
IdsOf(frames) == [i \in 1..Len(frames) |-> frames[i].id]
StrictlyIncreasing(ids) ==
    \A i, j \in 1..Len(ids) : i < j => ids[i] < ids[j]

\* C9: the packets written for one media type are the frames pushFrame queued
\* for that type, in the order they were queued, each at most once: what was
\* written followed by what is still queued is what was pushed.
C9_FifoPerType ==
    /\ writtenVideo \o m_videoQueue = pushedVideo
    /\ writtenAudio \o m_audioQueue = pushedAudio
    /\ StrictlyIncreasing(IdsOf(pushedVideo))
    /\ StrictlyIncreasing(IdsOf(pushedAudio))

\* Two frames of each type have been written.
C9_Witness ==
    /\ Len(writtenVideo) = 2
    /\ Len(writtenAudio) = 2

\* C10: after a video frame of another codec has set the status to
\* Context_ERROR, no packet is written and no sink open or header write is
\* performed while the status is Context_ERROR, and the status stays
\* Context_ERROR.
C10_NoOutputAfterMismatch ==
    [][(videoMismatch /\ m_status = Context_ERROR)
       => /\ UNCHANGED <<writtenVideo, writtenAudio>>
          /\ io'.sinkOpens = io.sinkOpens
          /\ io'.headerAttempts = io.headerAttempts
          /\ m_status' = Context_ERROR
      ]_vars

\* The steps in which avio_open and avformat_write_header fail.
OpenFailsStep == pcT = "open" /\ pcT' = "idle"
HeaderFailsStep == pcT = "header" /\ pcT' = "idle"

\* C11: a tick whose sink open or header write fails sets the status to
\* Context_ERROR, leaves the trailer-needed flag false, writes no packet, and
\* reports that failure; over the whole session one such report is made.
C11_InitFailure ==
    /\ [](notified.openFailed + notified.headerFailed <= 1)
    /\ [](notified.openFailed + notified.headerFailed = 1
            => ~m_avTrailerNeeded /\ io.headerWrites = 0)
    /\ [][(OpenFailsStep \/ HeaderFailsStep)
          => /\ ~IsNull(m_videoStream) /\ ~IsNull(m_audioStream)
             /\ m_status' = Context_ERROR
             /\ m_avTrailerNeeded' = FALSE
             /\ UNCHANGED <<writtenVideo, writtenAudio, m_videoQueue, m_audioQueue>>
             /\ notified'.openFailed =
                  notified.openFailed + (IF OpenFailsStep THEN 1 ELSE 0)
             /\ notified'.headerFailed =
                  notified.headerFailed + (IF HeaderFailsStep THEN 1 ELSE 0)
             /\ notified'.contextError = notified.contextError
         ]_vars

\* The header write failed, later ticks have reported the error state.
C11_Witness ==
    /\ notified.headerFailed = 1
    /\ notified.contextError = MaxErrorReports
    /\ m_status = Context_ERROR
    /\ m_audioQueue # <<>>
    /\ m_videoQueue # <<>>

\* The number of streams of one media type in the container context.
StreamCount(type) ==
    IF IsNull(m_context) THEN 0
    ELSE Cardinality({i \in 1..Len(m_context.streams) : m_context.streams[i] = type})

\* C12: at most one video stream and one audio stream are ever created, and
\* a stream pointer, once set, keeps its descriptor through every later
\* onFrame and tick.
C12_StreamsCreatedOnce ==
    /\ [](StreamCount("video") <= 1 /\ StreamCount("audio") <= 1)
    /\ [][/\ ~IsNull(m_videoStream) => m_videoStream' = m_videoStream
          /\ ~IsNull(m_audioStream) => m_audioStream' = m_audioStream
          /\ ~IsNull(m_context) /\ ~IsNull(m_context')
               => /\ StreamCount("video")' >= StreamCount("video")
                  /\ StreamCount("audio")' >= StreamCount("audio")
         ]_vars

\* Both streams exist and a second frame of each type has been queued.
C12_Witness ==
    /\ StreamCount("video") = 1
    /\ StreamCount("audio") = 1
    /\ Len(pushedVideo) = 2
    /\ Len(pushedAudio) = 2
    /\ m_status = Context_READY

\* Positions of the compositor calls of one kind.
CompositorCalls(op) == {i \in 1..Len(m_compositor) : m_compositor[i].op = op}
\* Positions of the onFrame calls that passed the format assertion.
ForwardedFrames ==
    {i \in 1..Len(decoderCalls) :
        /\ decoderCalls[i].op = "onFrame"
        /\ decoderCalls[i].format = "FRAME_FORMAT_I420"}

\* C13: over the lifetime of one decoder bound to slot s the compositor
\* gets one activateInput(s), first, one deActivateInput(s) at destruction,
\* last, and in between one pushInput(s, frame) per forwarded onFrame;
\* setInput and unsetInput make no compositor call.
C13_SlotLifecycle ==
    /\ [](fakedDecoder.life = "unborn" => m_compositor = <<>>)
    /\ [](fakedDecoder.life # "unborn" =>
            /\ CompositorCalls("activateInput") = {1}
            /\ \A i \in 1..Len(m_compositor) : m_compositor[i].slot = fakedDecoder.m_slot
            /\ Cardinality(CompositorCalls("pushInput")) = Cardinality(ForwardedFrames)
            /\ CompositorCalls("deActivateInput") =
                 IF fakedDecoder.life = "destroyed" THEN {Len(m_compositor)} ELSE {})
    /\ [](fakedDecoder.life = "destroyed" /\ ForwardedFrames = {} =>
            m_compositor = <<[op |-> "activateInput", slot |-> fakedDecoder.m_slot],
                             [op |-> "deActivateInput", slot |-> fakedDecoder.m_slot]>>)
    /\ [][/\ Len(decoderCalls') > Len(decoderCalls)
          /\ decoderCalls'[Len(decoderCalls')].op \in {"setInput", "unsetInput"}
          => m_compositor' = m_compositor]_vars

\* A decoder on slot 3 that was set up, fed a frame, and destroyed.
C13_Witness ==
    /\ fakedDecoder.life = "destroyed"
    /\ fakedDecoder.m_slot = 3
    /\ Len(m_compositor) = 3
    /\ \E i, j \in 1..Len(decoderCalls) :
          decoderCalls[i].op = "setInput" /\ decoderCalls[j].op = "unsetInput"

\* The step in which the audio producer leaves lines 151-161.
AudioPushStep == pcP[AudioProducer] = "push" /\ pcP'[AudioProducer] = "idle"

\* C14: an RTP audio frame of length L whose header length H is at most L
\* is queued with offset H and length L - H, a frame that is no RTP packet
\* with offset 0 and length L; with H > L the assertion fails and nothing is
\* queued.
C14_RtpStrip ==
    [][AudioPushStep =>
        LET f == frame[AudioProducer]
            L == f.length
            H == f.headerLength
        IN  /\ f.isRtpPacket /\ H <= L =>
                 /\ ~aborted'
                 /\ m_audioQueue' = Append(m_audioQueue,
                       [id |-> f.id, format |-> f.format, offset |-> H,
                        length |-> L - H])
            /\ ~f.isRtpPacket =>
                 /\ ~aborted'
                 /\ m_audioQueue' = Append(m_audioQueue,
                       [id |-> f.id, format |-> f.format, offset |-> 0,
                        length |-> L])
            /\ f.isRtpPacket /\ H > L =>
                 /\ aborted'
                 /\ m_audioQueue' = m_audioQueue
      ]_vars

\* An RTP packet of 14 bytes with a 12-byte header has been queued.
C14_Witness ==
    /\ audioIsRtp
    /\ ~aborted
    /\ \E i \in 1..Len(pushedAudio) :
          pushedAudio[i].offset = 12 /\ pushedAudio[i].length = 2

\* The steps of onTimeout in its Context_EMPTY case.
TickEntersEmptyStep == pcT = "idle" /\ pcT' = "empty"
TickLeavesEmptyStep == pcT = "empty" /\ pcT' # "empty"

\* C16: a tick in Context_EMPTY that finds the video stream or the audio
\* stream missing returns with nothing changed: status, sink, header, both
\* queues, the trailer-needed flag and the notifications are as before.
C16_EmptyTickWaits ==
    [][/\ TickEntersEmptyStep => UNCHANGED <<sessionVars, io, writtenVars, notified>>
       /\ TickLeavesEmptyStep /\ (IsNull(m_videoStream) \/ IsNull(m_audioStream))
            => /\ pcT' = "idle"
               /\ UNCHANGED <<sessionVars, io, writtenVars, notified>>
      ]_vars

\* A tick in Context_EMPTY sees the video stream but no audio stream, with
\* frames waiting in both queues.
C16_Witness ==
    /\ pcT = "empty"
    /\ m_status = Context_EMPTY
    /\ ~IsNull(m_videoStream)
    /\ IsNull(m_audioStream)
    /\ m_videoQueue # <<>>
    /\ m_audioQueue # <<>>

\* close has started, or has run.
TeardownStarted == pcC # "idle" \/ closeCalls > 0 \/ owner # "alive"

\* C17: close stops the timer before anything else: from the trailer write
\* on no tick starts or runs, so no tick opens the sink or writes a header or
\* a packet, and a tick that was running has returned.
C17_TimerStoppedFirst ==
    /\ [](TeardownStarted => pcT = "idle" /\ ~timerRunning)
    /\ [][pcC = "idle" /\ pcC' # "idle"
            => pcT = "idle" /\ ~timerRunning' /\ pcC' = "trailer" /\ io' = io]_vars
    /\ [][TeardownStarted
            => /\ UNCHANGED <<pcT, writtenVars>>
               /\ io'.sinkOpens = io.sinkOpens
               /\ io'.headerAttempts = io.headerAttempts]_vars

\* close ran after a tick had written packets, and wrote the trailer.
C17_Witness ==
    /\ closeCalls = 1
    /\ io.trailerWrites = 1
    /\ writtenVideo # <<>>
    /\ writtenAudio # <<>>
    /\ m_videoQueue # <<>>

\* C19: notifications come from ticks only: one for a failed sink open, one
\* for a failed header write, one from each tick that starts in
\* Context_ERROR; onFrame, close, ticks waiting in Context_EMPTY and ticks
\* in Context_READY emit none.
C19_NotificationsOnlyFromTicks ==
    /\ [](notified.openFailed <= 1 /\ notified.headerFailed <= 1)
    /\ [][notified' # notified =>
            /\ UNCHANGED <<pcP, pcC, closeCalls>>
            /\ \/ /\ OpenFailsStep
                  /\ notified' = [notified EXCEPT !.openFailed = @ + 1]
               \/ /\ HeaderFailsStep
                  /\ notified' = [notified EXCEPT !.headerFailed = @ + 1]
               \/ /\ pcT = "idle" /\ pcT' = "idle"
                  /\ m_status = Context_ERROR
                  /\ notified' = [notified EXCEPT !.contextError = @ + 1]
         ]_vars
    /\ [][(OpenFailsStep \/ HeaderFailsStep) => notified' # notified]_vars

\* The sink could not be opened, and a later tick reported the error state,
\* after onFrame had also set the error state for an unsupported format.
C19_Witness ==
    /\ notified.openFailed = 1
    /\ notified.contextError = MaxErrorReports
    /\ \E p \in Producers : dropped[p] > 0

\* C20: every frame in a queue, and every packet written, belongs to an
\* existing stream of its media type and has that stream's codec.
C20_FramesMatchStream ==
    /\ \A i \in 1..Len(m_audioQueue) :
          /\ ~IsNull(m_audioStream)
          /\ frameFormat2AudioCodecID(m_audioQueue[i].format) = m_audioStream.codec_id
    /\ \A i \in 1..Len(m_videoQueue) :
          /\ ~IsNull(m_videoStream)
          /\ frameFormat2VideoCodecID(m_videoQueue[i].format) = m_videoStream.codec_id
    /\ \A i \in 1..Len(writtenAudio) :
          frameFormat2AudioCodecID(writtenAudio[i].format) = m_audioStream.codec_id
    /\ \A i \in 1..Len(writtenVideo) :
          frameFormat2VideoCodecID(writtenVideo[i].format) = m_videoStream.codec_id

\* The step in which onTimeout returns from its drain loops.
TickReturnsFromDrainStep == pcT \in {"drainAudio", "drainVideo"} /\ pcT' = "idle"

\* C15: a tick that runs in Context_READY, the tick that stores
\* Context_READY included, goes through both drain loops and returns only
\* when every frame queued before it began has been written; if no frame was
\* queued meanwhile, both queues are empty at its return.
C15_TickDrainsQueues ==
    /\ [][pcT = "idle" /\ pcT' # "idle" /\ m_status = Context_READY
            => pcT' = "drainAudio"]_vars
    /\ [][pcT = "ready" /\ pcT' # "ready"
            => pcT' = "drainAudio" /\ m_status' = Context_READY]_vars
    /\ [][pcT = "drainAudio" => pcT' \in {"drainAudio", "drainVideo"}]_vars
    /\ [][TickReturnsFromDrainStep =>
            /\ Len(writtenAudio') >= tickStart.audio
            /\ Len(writtenVideo') >= tickStart.video
            /\ SubSeq(pushedAudio, 1, Len(writtenAudio')) = writtenAudio'
            /\ SubSeq(pushedVideo, 1, Len(writtenVideo')) = writtenVideo'
            /\ Len(pushedAudio') = tickStart.audio /\ Len(pushedVideo') = tickStart.video
                 => m_audioQueue' = <<>> /\ m_videoQueue' = <<>>
         ]_vars

\* A tick in its video loop that began with two frames in each queue and has
\* written all but the last video frame.
C15_Witness ==
    /\ pcT = "drainVideo"
    /\ tickStart = [audio |-> 2, video |-> 2]
    /\ Len(writtenAudio) = 2
    /\ Len(writtenVideo) = 1
    /\ Len(m_videoQueue) = 1

\* The session is not in Context_ERROR, has not been ended by an assertion,
\* and close has not been called.
Healthy == m_status # Context_ERROR /\ ~aborted /\ ~TeardownStarted

\* C18: if the session never enters Context_ERROR and is not closed, and
\* both streams get created (so that sink open and header write, which end
\* in Context_ERROR when they fail, succeed), then with the timer firing
\* every queued frame is eventually written, in its place of the queue order
\* and so exactly once.
C18_NoFrameDropped ==
    ([]Healthy /\ <>(~IsNull(m_videoStream) /\ ~IsNull(m_audioStream)))
    => /\ \A n \in 1..MaxFrames :
            /\ (Len(pushedVideo) >= n)
                 ~> (Len(writtenVideo) >= n /\ writtenVideo[n] = pushedVideo[n])
            /\ (Len(pushedAudio) >= n)
                 ~> (Len(writtenAudio) >= n /\ writtenAudio[n] = pushedAudio[n])
       /\ [](/\ Len(writtenVideo) <= Len(pushedVideo)
             /\ Len(writtenAudio) <= Len(pushedAudio)
             /\ \A i \in 1..Len(writtenVideo) : writtenVideo[i] = pushedVideo[i]
             /\ \A i \in 1..Len(writtenAudio) : writtenAudio[i] = pushedAudio[i])

\* Every frame the producers could hand over has been queued and written.
C18_Witness ==
    /\ Healthy
    /\ m_status = Context_READY
    /\ Len(pushedVideo) = MaxFrames
    /\ Len(pushedAudio) = MaxFrames
    /\ writtenVideo = pushedVideo
    /\ writtenAudio = pushedAudio

====
